---- MODULE Spec2Model ----
(***************************************************************************)
(* Reaction classification by molecular graph (automol/graph/reac.py).    *)
(*                                                                         *)
(* A molecular graph is a record [atoms, bonds]: atoms maps an atom key    *)
(* to (symbol, implicit hydrogen count, stereo parity), bonds maps a bond  *)
(* key (a two-element set of atom keys) to (order, stereo parity).  The    *)
(* classifiers are pure functions of a reactant list and a product list.   *)
(* The isomorphism oracle may return any valid mapping, so every           *)
(* classifier is modelled by the SET of outcomes it can return, one per    *)
(* way of resolving the oracle's choices (and the iteration order of the   *)
(* unordered collections it enumerates).  A list the code builds with      *)
(* append is modelled as a bag: the order of the returned tuple is lost,   *)
(* the multiplicity is kept.                                               *)
(***************************************************************************)
EXTENDS Integers, Sequences, FiniteSets, Bags, TLC

\* ------------------------------------------------------------- bounds
\* the longest reagent list drawn as an input
MaxReagents == 2
\* the largest number of atoms on one side of a reaction
MaxAtoms == 4

\* ------------------------------------------------------------- values
\* Python's None for a stereo parity
NoParity == "None"

\* an Optional value: None is the empty set, a value v is {v}
None == {}
Some(v) == {v}

Range(f) == {f[x] : x \in DOMAIN f}

Max(S) == CHOOSE x \in S : \A y \in S : y <= x

Min(S) == CHOOSE x \in S : \A y \in S : x <= y

RECURSIVE SumOver(_, _)
SumOver(S, f) ==
    IF S = {} THEN 0
    ELSE LET x == CHOOSE y \in S : TRUE IN f[x] + SumOver(S \ {x}, f)

\* the truth value Python gives a dict: an empty dict is false
Truthy(dct) == DOMAIN dct # {}

\* ------------------------------------------------------------- graphs
\* element valences and atomic numbers
valence(sym) == CASE sym = "H" -> 1 [] sym = "N" -> 3 [] sym = "O" -> 2

atomic_number(sym) == CASE sym = "H" -> 1 [] sym = "N" -> 7 [] sym = "O" -> 8

atom_keys(gra) == DOMAIN gra.atoms

bond_keys(gra) == DOMAIN gra.bonds

atom_neighbor_keys(gra) ==
    [a \in atom_keys(gra) |->
        {b \in atom_keys(gra) : {a, b} \in bond_keys(gra) /\ a # b}]

\* valence slots used by the bonds (orders summed) and the implicit hydrogens
atom_bond_valences(gra) ==
    [a \in atom_keys(gra) |->
        SumOver({k \in bond_keys(gra) : a \in k},
                [k \in bond_keys(gra) |-> gra.bonds[k].ord])
        + gra.atoms[a].imp]

unsaturated_atom_keys(gra) ==
    {a \in atom_keys(gra) :
        valence(gra.atoms[a].sym) - atom_bond_valences(gra)[a] > 0}

\* the union of two graphs; on a shared key the second graph's value wins
union(gra1, gra2) ==
    [atoms |-> gra2.atoms @@ gra1.atoms, bonds |-> gra2.bonds @@ gra1.bonds]

RECURSIVE union_from_sequence(_)
union_from_sequence(gras) ==
    IF gras = <<>> THEN [atoms |-> <<>>, bonds |-> <<>>]
    ELSE union(union_from_sequence(SubSeq(gras, 1, Len(gras) - 1)),
               gras[Len(gras)])

\* new bonds get order 1 and no stereo parity
add_bonds(gra, keys) ==
    [atoms |-> gra.atoms,
     bonds |-> [k \in keys |-> [ord |-> 1, ste |-> NoParity]] @@ gra.bonds]

remove_bonds(gra, keys) ==
    [atoms |-> gra.atoms,
     bonds |-> [k \in bond_keys(gra) \ keys |-> gra.bonds[k]]]

remove_atoms(gra, keys) ==
    [atoms |-> [a \in atom_keys(gra) \ keys |-> gra.atoms[a]],
     bonds |-> [k \in {b \in bond_keys(gra) : b \cap keys = {}} |-> gra.bonds[k]]]

\* attach one explicit hydrogen, with key h_key, to atom atm_key
add_atom_explicit_hydrogen_keys(gra, atm_key, h_key) ==
    [atoms |-> (h_key :> [sym |-> "H", imp |-> 0, ste |-> NoParity]) @@ gra.atoms,
     bonds |-> ({atm_key, h_key} :> [ord |-> 1, ste |-> NoParity]) @@ gra.bonds]

\* implicit hydrogens become atoms of their own, keyed after the largest key
RECURSIVE explicit_from(_, _)
explicit_from(gra, todo) ==
    IF todo = {} THEN gra
    ELSE LET a == Min(todo)
             n == gra.atoms[a].imp
             nxt == Max(atom_keys(gra)) + 1
             hs == nxt .. (nxt + n - 1)
             cleared == [gra.atoms EXCEPT ![a].imp = 0]
             gra_ == [atoms |-> [h \in hs |-> [sym |-> "H", imp |-> 0,
                                               ste |-> NoParity]] @@ cleared,
                      bonds |-> [k \in {{a, h} : h \in hs} |->
                                    [ord |-> 1, ste |-> NoParity]] @@ gra.bonds]
         IN explicit_from(gra_, todo \ {a})

explicit(gra) ==
    explicit_from(gra, {a \in atom_keys(gra) : gra.atoms[a].sym # "H"})

without_stereo_parities(gra) ==
    [atoms |-> [a \in atom_keys(gra) |-> [gra.atoms[a] EXCEPT !.ste = NoParity]],
     bonds |-> [k \in bond_keys(gra) |-> [gra.bonds[k] EXCEPT !.ste = NoParity]]]

\* relabel the atom keys of gra by the mapping dct
relabel(gra, dct) ==
    [atoms |-> [b \in {dct[a] : a \in atom_keys(gra)} |->
                  gra.atoms[CHOOSE a \in atom_keys(gra) : dct[a] = b]],
     bonds |-> [k \in {{dct[a] : a \in b} : b \in bond_keys(gra)} |->
                  gra.bonds[CHOOSE b \in bond_keys(gra) : {dct[a] : a \in b} = k]]]

\* the rank of a key among the keys of its graph, from 0
key_rank(gra, a) == Cardinality({b \in atom_keys(gra) : b < a})

\* atoms with the implicit hydrogens counted
atom_count(gra) ==
    Cardinality(atom_keys(gra))
    + SumOver(atom_keys(gra), [a \in atom_keys(gra) |-> gra.atoms[a].imp])

heavy_atom_count(gra) ==
    Cardinality({a \in atom_keys(gra) : gra.atoms[a].sym # "H"})

electron_count(gra) ==
    SumOver(atom_keys(gra),
            [a \in atom_keys(gra) |->
                atomic_number(gra.atoms[a].sym) + gra.atoms[a].imp])

RECURSIVE standard_keys_from(_, _)
standard_keys_from(gras, natms) ==
    IF gras = <<>> THEN <<>>
    ELSE LET gra == Head(gras)
             dct == [a \in atom_keys(gra) |-> key_rank(gra, a) + natms]
         IN <<relabel(gra, dct)>>
            \o standard_keys_from(Tail(gras), natms + Cardinality(atom_keys(gra)))

standard_keys_for_sequence(gras) == standard_keys_from(gras, 0)

\* connected components, as sets of atom keys
RECURSIVE reach(_, _)
reach(gra, seen) ==
    LET more == seen \cup UNION {atom_neighbor_keys(gra)[a] : a \in seen}
    IN IF more = seen THEN seen ELSE reach(gra, more)

connected_components(gra) == {reach(gra, {a}) : a \in atom_keys(gra)}

\* the molecular formula: how many atoms of each symbol, implicit hydrogens
\* counted as hydrogens
Symbols == {"H", "N", "O"}

formula(gra) ==
    [s \in Symbols |->
        Cardinality({a \in atom_keys(gra) : gra.atoms[a].sym = s})
        + (IF s = "H"
           THEN SumOver(atom_keys(gra),
                        [a \in atom_keys(gra) |-> gra.atoms[a].imp])
           ELSE 0)]

RECURSIVE formula_sum(_)
formula_sum(gras) ==
    IF gras = <<>> THEN [s \in Symbols |-> 0]
    ELSE [s \in Symbols |-> formula(Head(gras))[s] + formula_sum(Tail(gras))[s]]

add_hydrogen(fml) == [fml EXCEPT !["H"] = @ + 1]

\* ------------------------------------------------------------- isomorphism
\* the full isomorphisms of gra1 onto gra2 that extend the partial mapping m:
\* bijections of the atom keys that keep every atom's value and carry the
\* bonds of gra1 onto the bonds of gra2 with the same values
RECURSIVE isomorphisms_from(_, _, _)
isomorphisms_from(gra1, gra2, m) ==
    IF DOMAIN m = atom_keys(gra1) THEN {m}
    ELSE LET a == Min(atom_keys(gra1) \ DOMAIN m)
             cands ==
                 {b \in atom_keys(gra2) \ Range(m) :
                    /\ gra1.atoms[a] = gra2.atoms[b]
                    /\ \A a_ \in DOMAIN m :
                         IF {a, a_} \in bond_keys(gra1)
                         THEN /\ {b, m[a_]} \in bond_keys(gra2)
                              /\ gra1.bonds[{a, a_}] = gra2.bonds[{b, m[a_]}]
                         ELSE {b, m[a_]} \notin bond_keys(gra2)}
         IN UNION {isomorphisms_from(gra1, gra2, (a :> b) @@ m) : b \in cands}

\* every mapping full_isomorphism(gra1, gra2) may return; empty when it
\* returns None
full_isomorphism(gra1, gra2) ==
    IF \/ Cardinality(atom_keys(gra1)) # Cardinality(atom_keys(gra2))
       \/ Cardinality(bond_keys(gra1)) # Cardinality(bond_keys(gra2))
    THEN {}
    ELSE isomorphisms_from(gra1, gra2, <<>>)

\* "if full_isomorphism(gra1, gra2):" in the code
is_isomorphic(gra1, gra2) == \E m \in full_isomorphism(gra1, gra2) : Truthy(m)

\* ------------------------------------------------------------- transformations
TRIVIAL == "trivial"
HYDROGEN_MIGRATION == "hydrogen migration"
HYDROGEN_ABSTRACTION == "hydrogen abstraction"
ADDITION == "addition"
BETA_SCISSION == "beta scission"
RING_FORM_SCISSION == "ring forming scission"
ELIMINATION == "elimination"
INSERTION == "insertion"
SUBSTITUTION == "substitution"

\* trans.from_data: the class with the two sets of bond keys
from_data(rxn_class, frm_bnd_keys, brk_bnd_keys) ==
    [rxn_class |-> rxn_class, frm_bnd_keys |-> frm_bnd_keys,
     brk_bnd_keys |-> brk_bnd_keys]

reverse_reaction_class(rxn_class) ==
    CASE rxn_class = ADDITION -> BETA_SCISSION
      [] rxn_class = BETA_SCISSION -> ADDITION
      [] rxn_class = ELIMINATION -> INSERTION
      [] rxn_class = INSERTION -> ELIMINATION
      [] OTHER -> rxn_class

\* trans.apply: the graph after the transformation
apply(tra, xgr) ==
    add_bonds(remove_bonds(xgr, tra.brk_bnd_keys \ tra.frm_bnd_keys),
              tra.frm_bnd_keys \ tra.brk_bnd_keys)

map_bond_keys(dct, bnd_keys) == {{dct[a] : a \in k} : k \in bnd_keys}

\* trans.reverse: every transformation it may return, one per mapping of the
\* transformed xgr1 onto xgr2
reverse(tra, xgr1, xgr2) ==
    {from_data(reverse_reaction_class(tra.rxn_class),
               map_bond_keys(m, tra.brk_bnd_keys),
               map_bond_keys(m, tra.frm_bnd_keys)) :
        m \in full_isomorphism(apply(tra, xgr1), xgr2)}

\* ------------------------------------------------------------- outcomes
\* what a call produces: an error raised, or the returned triple
NoError == "ok"

Raise(msg) ==
    [err |-> msg, tras |-> EmptyBag, rct_idxs |-> None, prd_idxs |-> None]

Return(tras, rct_idxs, prd_idxs) ==
    [err |-> NoError, tras |-> tras, rct_idxs |-> rct_idxs, prd_idxs |-> prd_idxs]

\* "if tras:" in the code
NonEmpty(tras) == tras # EmptyBag

\* the ways of taking one candidate of T[x] for every x of DOMAIN T
RECURSIVE choice_functions(_)
choice_functions(T) ==
    IF DOMAIN T = {} THEN {<<>>}
    ELSE LET x == CHOOSE y \in DOMAIN T : TRUE
             rest == [y \in DOMAIN T \ {x} |-> T[y]]
         IN {(x :> t) @@ f : t \in T[x], f \in choice_functions(rest)}

\* the values of f as a bag: one copy for every x of DOMAIN f
RECURSIVE bag_of(_)
bag_of(f) ==
    IF DOMAIN f = {} THEN EmptyBag
    ELSE LET x == CHOOSE y \in DOMAIN f : TRUE
         IN SetToBag({f[x]}) (+) bag_of([y \in DOMAIN f \ {x} |-> f[y]])

\* the lists (as bags) made by appending one candidate of T[x] for every x
choice_bags(T) == {bag_of(f) : f \in choice_functions(T)}

\* tuple(set(tras)): duplicates collapse
dedup(tras) == SetToBag(BagToSet(tras))

\* ------------------------------------------------------------- validation
are_all_explicit(gras) ==
    \A i \in DOMAIN gras : gras[i] = explicit(gras[i])

have_no_stereo_assignments(gras) ==
    \A i \in DOMAIN gras : gras[i] = without_stereo_parities(gras[i])

have_no_common_atom_keys(gras) ==
    SumOver(DOMAIN gras, [i \in DOMAIN gras |-> Cardinality(atom_keys(gras[i]))])
    = Cardinality(UNION {atom_keys(gras[i]) : i \in DOMAIN gras})

ImplicitMsg == "Implicit hydrogens are not allowed here!"
StereoMsg == "Stereo assignments are not allowed here!"
OverlapMsg == "Overlapping atom keys are not allowed here!"

\* the assertion that fails, or NoError
assert_is_valid_reagent_graph_list(gras) ==
    IF ~are_all_explicit(gras) THEN ImplicitMsg
    ELSE IF ~have_no_stereo_assignments(gras) THEN StereoMsg
    ELSE IF ~have_no_common_atom_keys(gras) THEN OverlapMsg
    ELSE NoError

\* a validation that looks at the reactants only
assert_reagents_rct_only(rct_gras, prd_gras) ==
    assert_is_valid_reagent_graph_list(rct_gras)

\* the two assertions every classifier starts with
assert_reagents(rct_gras, prd_gras) ==
    IF assert_is_valid_reagent_graph_list(rct_gras) # NoError
    THEN assert_is_valid_reagent_graph_list(rct_gras)
    ELSE assert_is_valid_reagent_graph_list(prd_gras)

\* ------------------------------------------------------------- sorting
sort_value(gra) ==
    <<0 - heavy_atom_count(gra), 0 - atom_count(gra), 0 - electron_count(gra)>>

\* tuple comparison of Python
tuple_less(u, v) ==
    \E i \in 1..Len(u) : u[i] < v[i] /\ \A j \in 1..(i - 1) : u[j] = v[j]

\* a sort that puts the later of two species with equal values first
argsort_reactants_unstable(gras) ==
    LET n == Len(gras)
        before(i, j) ==
            \/ tuple_less(sort_value(gras[i + 1]), sort_value(gras[j + 1]))
            \/ sort_value(gras[i + 1]) = sort_value(gras[j + 1]) /\ i > j
    IN [p \in 1..n |->
          CHOOSE i \in 0..(n - 1) :
             Cardinality({j \in 0..(n - 1) : before(j, i)}) = p - 1]

\* sorted() is stable: equal values keep the order of the list
argsort_reactants(gras) ==
    LET n == Len(gras)
        before(i, j) ==
            \/ tuple_less(sort_value(gras[i + 1]), sort_value(gras[j + 1]))
            \/ sort_value(gras[i + 1]) = sort_value(gras[j + 1]) /\ i < j
    IN [p \in 1..n |->
          CHOOSE i \in 0..(n - 1) :
             Cardinality({j \in 0..(n - 1) : before(j, i)}) = p - 1]

\* ------------------------------------------------------------- trivial reaction
\* a loop that does not remove the product it has matched
RECURSIVE trivial_loop_no_pop(_, _, _, _)
trivial_loop_no_pop(rct_gras, prd_gras, rct_idx, prd_idxs) ==
    IF rct_idx = Len(rct_gras) THEN Some(prd_idxs)
    ELSE LET hits == {idx \in 0..(Len(prd_gras) - 1) :
                        is_isomorphic(rct_gras[rct_idx + 1], prd_gras[idx + 1])}
         IN IF hits = {} THEN None
            ELSE trivial_loop_no_pop(rct_gras, prd_gras, rct_idx + 1,
                                     [prd_idxs EXCEPT ![rct_idx + 1] = Min(hits)])

\* the for loop of trivial_reaction from reactant rct_idx (counted from 0) on:
\* prd_gras holds the products not yet removed; the result is None when some
\* reactant has no match, and the filled prd_idxs otherwise
RECURSIVE trivial_loop(_, _, _, _)
trivial_loop(rct_gras, prd_gras, rct_idx, prd_idxs) ==
    IF rct_idx = Len(rct_gras) THEN Some(prd_idxs)
    ELSE LET hits == {idx \in 0..(Len(prd_gras) - 1) :
                        is_isomorphic(rct_gras[rct_idx + 1], prd_gras[idx + 1])}
         IN IF hits = {} THEN None
            ELSE LET prd_idx == Min(hits)
                     popped == [i \in 1..(Len(prd_gras) - 1) |->
                                   IF i <= prd_idx THEN prd_gras[i]
                                   ELSE prd_gras[i + 1]]
                 IN trivial_loop(rct_gras, popped, rct_idx + 1,
                                 [prd_idxs EXCEPT ![rct_idx + 1] = prd_idx])

trivial_reaction(rct_gras, prd_gras) ==
    IF assert_reagents(rct_gras, prd_gras) # NoError
    THEN {Raise(assert_reagents(rct_gras, prd_gras))}
    ELSE LET num == Len(rct_gras)
             found == IF Len(rct_gras) = Len(prd_gras)
                      THEN trivial_loop(rct_gras, prd_gras, 0,
                                        [i \in 1..num |-> 0])
                      ELSE None
         IN IF found = None
            THEN {Return(EmptyBag, None, None)}
            ELSE {Return(SetToBag({from_data(TRIVIAL, {}, {})}),
                         Some([i \in 1..num |-> i - 1]),
                         found)}

\* called by the classifiers after their own validation has passed
is_trivial_reaction(rct_gras, prd_gras) ==
    \E out \in trivial_reaction(rct_gras, prd_gras) : NonEmpty(out.tras)

\* ------------------------------------------------------------- hydrogen migration
\* a search over the pairs of sites taken once each, as combinations of the
\* keys, instead of over the product of the two sets of sites
hydrogen_migration_combinations(rct_gras, prd_gras) ==
    IF assert_reagents(rct_gras, prd_gras) # NoError
    THEN {Raise(assert_reagents(rct_gras, prd_gras))}
    ELSE IF ~(/\ Len(rct_gras) = 1 /\ Len(prd_gras) = 1
              /\ ~is_trivial_reaction(rct_gras, prd_gras))
    THEN {Return(EmptyBag, None, None)}
    ELSE LET gra1 == rct_gras[1]
             gra2 == prd_gras[1]
             h_atm_key1 == Max(atom_keys(gra1)) + 1
             h_atm_key2 == Max(atom_keys(gra2)) + 1
             gra1_h(atm_key1) ==
                 add_atom_explicit_hydrogen_keys(gra1, atm_key1, h_atm_key1)
             gra2_h(atm_key2) ==
                 add_atom_explicit_hydrogen_keys(gra2, atm_key2, h_atm_key2)
             dcts(pr) == {m \in full_isomorphism(gra2_h(pr[2]), gra1_h(pr[1])) :
                            Truthy(m)}
             hits == {pr \in unsaturated_atom_keys(gra1)
                             \X unsaturated_atom_keys(gra2) :
                        pr[1] <= pr[2] /\ dcts(pr) # {}}
             T == [pr \in hits |->
                     {from_data(HYDROGEN_MIGRATION,
                                {{pr[1], m[h_atm_key2]}},
                                {{m[pr[2]], m[h_atm_key2]}}) : m \in dcts(pr)}]
         IN IF hits = {} THEN {Return(EmptyBag, None, None)}
            ELSE {Return(tras, Some(<<0>>), Some(<<0>>)) : tras \in choice_bags(T)}

\* a hydrogen migration that writes the bonds with the hydrogen key made for
\* the product, without the mapping
hydrogen_migration_unmapped(rct_gras, prd_gras) ==
    IF assert_reagents(rct_gras, prd_gras) # NoError
    THEN {Raise(assert_reagents(rct_gras, prd_gras))}
    ELSE IF ~(/\ Len(rct_gras) = 1 /\ Len(prd_gras) = 1
              /\ ~is_trivial_reaction(rct_gras, prd_gras))
    THEN {Return(EmptyBag, None, None)}
    ELSE LET gra1 == rct_gras[1]
             gra2 == prd_gras[1]
             h_atm_key1 == Max(atom_keys(gra1)) + 1
             h_atm_key2 == Max(atom_keys(gra2)) + 1
             gra1_h(atm_key1) ==
                 add_atom_explicit_hydrogen_keys(gra1, atm_key1, h_atm_key1)
             gra2_h(atm_key2) ==
                 add_atom_explicit_hydrogen_keys(gra2, atm_key2, h_atm_key2)
             dcts(pr) == {m \in full_isomorphism(gra2_h(pr[2]), gra1_h(pr[1])) :
                            Truthy(m)}
             hits == {pr \in unsaturated_atom_keys(gra1)
                             \X unsaturated_atom_keys(gra2) : dcts(pr) # {}}
             T == [pr \in hits |->
                     {from_data(HYDROGEN_MIGRATION,
                                {{pr[1], h_atm_key2}},
                                {{pr[2], h_atm_key2}}) : m \in dcts(pr)}]
         IN IF hits = {} THEN {Return(EmptyBag, None, None)}
            ELSE {Return(tras, Some(<<0>>), Some(<<0>>)) : tras \in choice_bags(T)}

hydrogen_migration(rct_gras, prd_gras) ==
    IF assert_reagents(rct_gras, prd_gras) # NoError
    THEN {Raise(assert_reagents(rct_gras, prd_gras))}
    ELSE IF ~(/\ Len(rct_gras) = 1 /\ Len(prd_gras) = 1
              /\ ~is_trivial_reaction(rct_gras, prd_gras))
    THEN {Return(EmptyBag, None, None)}
    ELSE LET gra1 == rct_gras[1]
             gra2 == prd_gras[1]
             h_atm_key1 == Max(atom_keys(gra1)) + 1
             h_atm_key2 == Max(atom_keys(gra2)) + 1
             gra1_h(atm_key1) ==
                 add_atom_explicit_hydrogen_keys(gra1, atm_key1, h_atm_key1)
             gra2_h(atm_key2) ==
                 add_atom_explicit_hydrogen_keys(gra2, atm_key2, h_atm_key2)
             dcts(pr) == {m \in full_isomorphism(gra2_h(pr[2]), gra1_h(pr[1])) :
                            Truthy(m)}
             hits == {pr \in unsaturated_atom_keys(gra1)
                             \X unsaturated_atom_keys(gra2) : dcts(pr) # {}}
             T == [pr \in hits |->
                     {from_data(HYDROGEN_MIGRATION,
                                {{pr[1], m[h_atm_key2]}},
                                {{m[pr[2]], m[h_atm_key2]}}) : m \in dcts(pr)}]
         IN IF hits = {} THEN {Return(EmptyBag, None, None)}
            ELSE {Return(tras, Some(<<0>>), Some(<<0>>)) : tras \in choice_bags(T)}

\* ------------------------------------------------------------- hydrogen abstraction
\* formula.reac.argsort_hydrogen_abstraction: the first pairing of the two
\* reactants and the two products with R1H + R2 -> R2H + R1 by formula, or None
argsort_hydrogen_abstraction(rct_fmls, prd_fmls) ==
    LET perms == <<(<<0, 1>>), (<<1, 0>>)>>
        fits(i, j) ==
            /\ add_hydrogen(prd_fmls[perms[j][2] + 1]) = rct_fmls[perms[i][1] + 1]
            /\ add_hydrogen(rct_fmls[perms[i][2] + 1]) = prd_fmls[perms[j][1] + 1]
        good == {ij \in (1..2) \X (1..2) : fits(ij[1], ij[2])}
    IN IF Len(rct_fmls) # 2 \/ Len(prd_fmls) # 2 \/ good = {} THEN None
       ELSE LET ij == CHOOSE x \in good :
                        \A y \in good : x[1] < y[1] \/ (x[1] = y[1] /\ x[2] <= y[2])
            IN Some(<<perms[ij[1]], perms[ij[2]]>>)

\* for every unsaturated atom of q_gra whose hydrogenation gives qh_gra, the
\* triples (donor atom of qh_gra, donor hydrogen of qh_gra, atom of q_gra) the
\* oracle's mapping may give
\* a version that names the donor atom by its key in q_gra, not by the key
\* the mapping gives it in qh_gra
partial_hydrogen_abstraction_unmapped(qh_gra, q_gra) ==
    LET h_atm_key == Max(atom_keys(q_gra)) + 1
        dcts(atm_key) ==
            {m \in full_isomorphism(
                      add_atom_explicit_hydrogen_keys(q_gra, atm_key, h_atm_key),
                      qh_gra) : Truthy(m)}
        hits == {atm_key \in unsaturated_atom_keys(q_gra) : dcts(atm_key) # {}}
    IN [atm_key \in hits |->
          {<<atm_key, m[h_atm_key], atm_key>> : m \in dcts(atm_key)}]

partial_hydrogen_abstraction(qh_gra, q_gra) ==
    LET h_atm_key == Max(atom_keys(q_gra)) + 1
        dcts(atm_key) ==
            {m \in full_isomorphism(
                      add_atom_explicit_hydrogen_keys(q_gra, atm_key, h_atm_key),
                      qh_gra) : Truthy(m)}
        hits == {atm_key \in unsaturated_atom_keys(q_gra) : dcts(atm_key) # {}}
    IN [atm_key \in hits |->
          {<<m[atm_key], m[h_atm_key], atm_key>> : m \in dcts(atm_key)}]

hydrogen_abstraction(rct_gras, prd_gras) ==
    IF assert_reagents(rct_gras, prd_gras) # NoError
    THEN {Raise(assert_reagents(rct_gras, prd_gras))}
    ELSE IF ~(/\ Len(rct_gras) = 2 /\ Len(prd_gras) = 2
              /\ ~is_trivial_reaction(rct_gras, prd_gras))
    THEN {Return(EmptyBag, None, None)}
    ELSE LET rct_fmls == [i \in 1..2 |-> formula(rct_gras[i])]
             prd_fmls == [i \in 1..2 |-> formula(prd_gras[i])]
             ret == argsort_hydrogen_abstraction(rct_fmls, prd_fmls)
         IN IF ret = None THEN {Return(EmptyBag, None, None)}
            ELSE LET idxs == CHOOSE x \in ret : TRUE
                     rct_idxs_ == idxs[1]
                     prd_idxs_ == idxs[2]
                     q1h_gra == rct_gras[rct_idxs_[1] + 1]
                     q2_gra == rct_gras[rct_idxs_[2] + 1]
                     q2h_gra == prd_gras[prd_idxs_[1] + 1]
                     q1_gra == prd_gras[prd_idxs_[2] + 1]
                     rets1 == partial_hydrogen_abstraction(q1h_gra, q1_gra)
                     rets2 == partial_hydrogen_abstraction(q2h_gra, q2_gra)
                     pairs == (DOMAIN rets1) \X (DOMAIN rets2)
                     tra(ret1, ret2) ==
                         from_data(HYDROGEN_ABSTRACTION,
                                   {{ret2[3], ret1[2]}},
                                   {{ret1[1], ret1[2]}})
                 IN IF pairs = {} THEN {Return(EmptyBag, None, None)}
                    ELSE {Return(bag_of([pr \in pairs |->
                                            tra(c1[pr[1]], c2[pr[2]])]),
                                 Some(rct_idxs_), Some(prd_idxs_)) :
                             c1 \in choice_functions(rets1),
                             c2 \in choice_functions(rets2)}

\* ------------------------------------------------------------- addition
addition(rct_gras, prd_gras) ==
    IF assert_reagents(rct_gras, prd_gras) # NoError
    THEN {Raise(assert_reagents(rct_gras, prd_gras))}
    ELSE IF ~(/\ Len(rct_gras) = 2 /\ Len(prd_gras) = 1
              /\ ~is_trivial_reaction(rct_gras, prd_gras))
    THEN {Return(EmptyBag, None, None)}
    ELSE LET x_gra == rct_gras[1]
             y_gra == rct_gras[2]
             prd_gra == prd_gras[1]
             xy_gra(pr) == add_bonds(union(x_gra, y_gra), {{pr[1], pr[2]}})
             hits == {pr \in unsaturated_atom_keys(x_gra)
                             \X unsaturated_atom_keys(y_gra) :
                        is_isomorphic(xy_gra(pr), prd_gra)}
             tras == bag_of([pr \in hits |->
                                from_data(ADDITION, {{pr[1], pr[2]}}, {})])
         IN IF hits = {} THEN {Return(EmptyBag, None, None)}
            ELSE {Return(tras, Some(argsort_reactants(rct_gras)), Some(<<0>>))}

\* ------------------------------------------------------------- beta scission
\* rev is one outcome of the reversed search (the classifier called with the
\* lists swapped); its transformations are reversed, deduplicated, and its
\* two orderings swap roles
reversed_outcomes(rev, rct_gras, prd_gras) ==
    IF rev.err # NoError THEN {rev}
    ELSE IF ~NonEmpty(rev.tras)
    THEN {Return(EmptyBag, rev.prd_idxs, rev.rct_idxs)}
    ELSE LET rct_gra == union_from_sequence(rct_gras)
             prd_gra == union_from_sequence(prd_gras)
             T == [tra \in BagToSet(rev.tras) |-> reverse(tra, prd_gra, rct_gra)]
         IN IF \E tra \in DOMAIN T : T[tra] = {}
            THEN {Raise("AttributeError")}
            ELSE {Return(dedup(bag_of(f)), rev.prd_idxs, rev.rct_idxs) :
                     f \in choice_functions(T)}

\* a beta scission that keeps the two orderings in the roles they have in the
\* reversed search
beta_scission_unswapped(rct_gras, prd_gras) ==
    {IF out.err = NoError
     THEN Return(out.tras, out.prd_idxs, out.rct_idxs) ELSE out :
        out \in UNION {reversed_outcomes(rev, rct_gras, prd_gras) :
                          rev \in addition(prd_gras, rct_gras)}}

\* a beta scission that drops the orderings of the reversed search
beta_scission_no_idxs(rct_gras, prd_gras) ==
    {IF out.err = NoError THEN Return(out.tras, None, None) ELSE out :
        out \in UNION {reversed_outcomes(rev, rct_gras, prd_gras) :
                          rev \in addition(prd_gras, rct_gras)}}

beta_scission(rct_gras, prd_gras) ==
    UNION {reversed_outcomes(rev, rct_gras, prd_gras) :
              rev \in addition(prd_gras, rct_gras)}

\* ------------------------------------------------------------- ring forming scission
\* "atms[xatm][1] != 'H'": item 1 of an atom's value is its implicit hydrogen
\* count, a number, and a number never equals a string
differs_from_symbol(imp_hyd_vlc, sym) == TRUE

\* the triples (rad_atm, xatm, natm) for which the loops build a trial graph
\* as long as no transformation has been found
ring_forming_trials(rgra) ==
    LET rad_atm_keys == unsaturated_atom_keys(rgra)
        atms == rgra.atoms
        ngb_atms == atom_neighbor_keys(rgra)
    IN {t \in rad_atm_keys \X (DOMAIN atms) \X (DOMAIN atms) :
          /\ t[2] # t[1]
          /\ differs_from_symbol(atms[t[2]].imp, "H")
          /\ t[2] \notin ngb_atms[t[1]]
          /\ t[3] \in ngb_atms[t[2]]
          /\ t[3] # t[1]}

\* a search that stops at the first hit of each radical site and goes on
\* with the next site
ring_forming_scission_per_site(rct_gras, prd_gras) ==
    IF assert_reagents(rct_gras, prd_gras) # NoError
    THEN {Raise(assert_reagents(rct_gras, prd_gras))}
    ELSE IF ~(/\ Len(rct_gras) = 1 /\ Len(prd_gras) = 2
              /\ ~is_trivial_reaction(rct_gras, prd_gras))
    THEN {Return(EmptyBag, None, None)}
    ELSE LET rgra == rct_gras[1]
             pgra == union(prd_gras[1], prd_gras[2])
             xgra(rad_atm, xatm, natm) ==
                 remove_bonds(add_bonds(rgra, {{rad_atm, xatm}}), {{xatm, natm}})
             hits == {t \in ring_forming_trials(rgra) :
                        is_isomorphic(xgra(t[1], t[2], t[3]), pgra)}
             tra(t) == from_data(RING_FORM_SCISSION,
                                 {{t[1], t[2]}}, {{t[2], t[3]}})
             T == [rad_atm \in {t[1] : t \in hits} |->
                     {tra(t) : t \in {u \in hits : u[1] = rad_atm}}]
         IN {Return(tras, Some(<<0>>), Some(argsort_reactants(prd_gras))) :
                tras \in choice_bags(T)}

\* the first hit of the three nested loops is the only transformation kept
\* ("not tras" closes the search); the loops run over unordered collections,
\* so every hit can be the first
ring_forming_scission(rct_gras, prd_gras) ==
    IF assert_reagents(rct_gras, prd_gras) # NoError
    THEN {Raise(assert_reagents(rct_gras, prd_gras))}
    ELSE IF ~(/\ Len(rct_gras) = 1 /\ Len(prd_gras) = 2
              /\ ~is_trivial_reaction(rct_gras, prd_gras))
    THEN {Return(EmptyBag, None, None)}
    ELSE LET rgra == rct_gras[1]
             pgra == union(prd_gras[1], prd_gras[2])
             xgra(rad_atm, xatm, natm) ==
                 remove_bonds(add_bonds(rgra, {{rad_atm, xatm}}), {{xatm, natm}})
             hits == {t \in ring_forming_trials(rgra) :
                        is_isomorphic(xgra(t[1], t[2], t[3]), pgra)}
             tra(t) == from_data(RING_FORM_SCISSION,
                                 {{t[1], t[2]}}, {{t[2], t[3]}})
             rct_idxs == Some(<<0>>)
             prd_idxs == Some(argsort_reactants(prd_gras))
         IN IF hits = {} THEN {Return(EmptyBag, rct_idxs, prd_idxs)}
            ELSE {Return(SetToBag({tra(t)}), rct_idxs, prd_idxs) : t \in hits}

\* ------------------------------------------------------------- elimination
\* every fragment, connected to both break sites or not, when breaking the
\* two bonds leaves three fragments
central_fragment_atom_keys_any(gra, brk_bnd_key1, brk_bnd_key2) ==
    IF Cardinality(connected_components(gra)) # 3 THEN {}
    ELSE connected_components(gra)

\* the fragments connected to both break sites (the code keeps the last one
\* it meets), when breaking the two bonds leaves three fragments
central_fragment_atom_keys(gra, brk_bnd_key1, brk_bnd_key2) ==
    IF Cardinality(connected_components(gra)) # 3 THEN {}
    ELSE {atm_keys_ \in connected_components(gra) :
            /\ Cardinality(brk_bnd_key1 \ atm_keys_) = 1
            /\ Cardinality(brk_bnd_key2 \ atm_keys_) = 1}

AssertionError == "AssertionError"

\* "atm1_key, = ..." with a set that does not hold exactly one key
ValueError == "ValueError"

\* an elimination that reads the formed bond out of the mapping, in the keys
\* of the products
elimination_mapped_keys(rct_gras, prd_gras) ==
    IF assert_reagents(rct_gras, prd_gras) # NoError
    THEN {Raise(assert_reagents(rct_gras, prd_gras))}
    ELSE IF ~(/\ Len(rct_gras) = 1 /\ Len(prd_gras) = 2
              /\ ~is_trivial_reaction(rct_gras, prd_gras))
    THEN {Return(EmptyBag, None, None)}
    ELSE LET rct_gra == rct_gras[1]
             prd_gra == union_from_sequence(prd_gras)
             pairs == {b \in SUBSET bond_keys(rct_gra) : Cardinality(b) = 2}
             cents(b) ==
                 LET k1 == CHOOSE k \in b : TRUE
                     k2 == CHOOSE k \in b : k # k1
                 IN central_fragment_atom_keys(remove_bonds(rct_gra, b), k1, k2)
             cands == UNION {{[brk |-> b, cent |-> c] : c \in cents(b)} :
                                b \in pairs}
             frm_bnd_key(c) == UNION {k \ c.cent : k \in c.brk}
             rct_gra_(c) == add_bonds(remove_bonds(rct_gra, c.brk),
                                      {frm_bnd_key(c)})
             dcts(c) == {m \in full_isomorphism(rct_gra_(c), prd_gra) : Truthy(m)}
             hits == {c \in cands : dcts(c) # {}}
             T == [c \in hits |->
                     {from_data(ELIMINATION,
                                {{m[a] : a \in frm_bnd_key(c)}}, c.brk) :
                         m \in dcts(c)}]
             order(c, m) ==
                 LET cent_prd_atm_keys == {m[a] : a \in c.cent}
                 IN IF cent_prd_atm_keys \subseteq atom_keys(prd_gras[1])
                    THEN Some(<<0, 1>>)
                    ELSE Some(<<1, 0>>)
             unpacks == \A c \in cands : \A k \in c.brk :
                            Cardinality(k \ c.cent) = 1
         IN IF ~unpacks THEN {Raise(ValueError)}
            ELSE IF hits = {} THEN {Return(EmptyBag, None, None)}
            ELSE {Return(tras, Some(<<0>>), o) :
                     tras \in choice_bags(T),
                     o \in UNION {{order(c, m) : m \in dcts(c)} : c \in hits}}

elimination(rct_gras, prd_gras) ==
    IF assert_reagents(rct_gras, prd_gras) # NoError
    THEN {Raise(assert_reagents(rct_gras, prd_gras))}
    ELSE IF ~(/\ Len(rct_gras) = 1 /\ Len(prd_gras) = 2
              /\ ~is_trivial_reaction(rct_gras, prd_gras))
    THEN {Return(EmptyBag, None, None)}
    ELSE LET rct_gra == rct_gras[1]
             prd_gra == union_from_sequence(prd_gras)
             \* a candidate: the two bonds broken and the central fragment
             pairs == {b \in SUBSET bond_keys(rct_gra) : Cardinality(b) = 2}
             cents(b) ==
                 LET k1 == CHOOSE k \in b : TRUE
                     k2 == CHOOSE k \in b : k # k1
                 IN central_fragment_atom_keys(remove_bonds(rct_gra, b), k1, k2)
             cands == UNION {{[brk |-> b, cent |-> c] : c \in cents(b)} :
                                b \in pairs}
             frm_bnd_key(c) == UNION {k \ c.cent : k \in c.brk}
             rct_gra_(c) == add_bonds(remove_bonds(rct_gra, c.brk),
                                      {frm_bnd_key(c)})
             dcts(c) == {m \in full_isomorphism(rct_gra_(c), prd_gra) : Truthy(m)}
             hits == {c \in cands : dcts(c) # {}}
             tra(c) == from_data(ELIMINATION, {frm_bnd_key(c)}, c.brk)
             \* how the product ordering comes out for one mapping
             order(c, m) ==
                 LET cent_prd_atm_keys == {m[a] : a \in c.cent}
                 IN IF cent_prd_atm_keys \subseteq atom_keys(prd_gras[1])
                    THEN Some(<<0, 1>>)
                    ELSE IF cent_prd_atm_keys \subseteq atom_keys(prd_gras[2])
                    THEN Some(<<1, 0>>)
                    ELSE None
             orders(c) == {order(c, m) : m \in dcts(c)}
             \* a run passes every hit without a failed assertion
             passes == \A c \in hits : orders(c) # {None}
             fails == \E c \in hits : None \in orders(c)
             \* the two one-element unpackings of every candidate
             unpacks == \A c \in cands : \A k \in c.brk :
                            Cardinality(k \ c.cent) = 1
         IN IF ~unpacks THEN {Raise(ValueError)}
            ELSE IF hits = {} THEN {Return(EmptyBag, None, None)}
            ELSE (IF fails THEN {Raise(AssertionError)} ELSE {})
                 \cup (IF passes
                       THEN {Return(bag_of([c \in hits |-> tra(c)]),
                                    Some(<<0>>), o) :
                                o \in UNION {orders(c) \ {None} : c \in hits}}
                       ELSE {})

\* ------------------------------------------------------------- insertion
insertion(rct_gras, prd_gras) ==
    UNION {reversed_outcomes(rev, rct_gras, prd_gras) :
              rev \in elimination(prd_gras, rct_gras)}

\* ------------------------------------------------------------- substitution
substitution(rct_gras, prd_gras) ==
    IF assert_reagents(rct_gras, prd_gras) # NoError
    THEN {Raise(assert_reagents(rct_gras, prd_gras))}
    ELSE IF ~(/\ Len(rct_gras) = 2 /\ Len(prd_gras) = 2
              /\ ~is_trivial_reaction(rct_gras, prd_gras))
    THEN {Return(EmptyBag, None, None)}
    ELSE LET rct_gra == union_from_sequence(rct_gras)
             prd_gra == union_from_sequence(prd_gras)
             dcts(pr) == {m \in full_isomorphism(remove_bonds(prd_gra, {pr[2]}),
                                                 remove_bonds(rct_gra, {pr[1]})) :
                            Truthy(m)}
             hits == {pr \in bond_keys(rct_gra) \X bond_keys(prd_gra) :
                        dcts(pr) # {}}
             T == [pr \in hits |->
                     {from_data(SUBSTITUTION,
                                {{m[a] : a \in pr[2]}}, {pr[1]}) : m \in dcts(pr)}]
         IN IF hits = {} THEN {Return(EmptyBag, None, None)}
            ELSE {Return(dedup(tras), Some(argsort_reactants(rct_gras)),
                         Some(argsort_reactants(prd_gras))) :
                     tras \in choice_bags(T)}

\* ------------------------------------------------------------- dispatch
\* a table with addition and beta scission in each other's place
REACTION_FINDER_DCT_swapped ==
    <<TRIVIAL, HYDROGEN_MIGRATION, HYDROGEN_ABSTRACTION, BETA_SCISSION,
      ADDITION, ELIMINATION, INSERTION, SUBSTITUTION>>

REACTION_FINDER_DCT ==
    <<TRIVIAL, HYDROGEN_MIGRATION, HYDROGEN_ABSTRACTION, ADDITION,
      BETA_SCISSION, ELIMINATION, INSERTION, SUBSTITUTION>>

\* the outcomes of the classifier named rxn_class
rxn_finder(rxn_class, rct_gras, prd_gras) ==
    CASE rxn_class = TRIVIAL -> trivial_reaction(rct_gras, prd_gras)
      [] rxn_class = HYDROGEN_MIGRATION -> hydrogen_migration(rct_gras, prd_gras)
      [] rxn_class = HYDROGEN_ABSTRACTION ->
             hydrogen_abstraction(rct_gras, prd_gras)
      [] rxn_class = ADDITION -> addition(rct_gras, prd_gras)
      [] rxn_class = BETA_SCISSION -> beta_scission(rct_gras, prd_gras)
      [] rxn_class = RING_FORM_SCISSION ->
             ring_forming_scission(rct_gras, prd_gras)
      [] rxn_class = ELIMINATION -> elimination(rct_gras, prd_gras)
      [] rxn_class = INSERTION -> insertion(rct_gras, prd_gras)
      [] rxn_class = SUBSTITUTION -> substitution(rct_gras, prd_gras)

\* a balance of the number of atoms, whatever their elements
is_valid_reaction_atom_count(rct_gras, prd_gras) ==
    LET total(gras) == SumOver(DOMAIN gras,
                               [i \in DOMAIN gras |-> atom_count(gras[i])])
    IN total(rct_gras) = total(prd_gras)

is_valid_reaction(rct_gras, prd_gras) ==
    formula_sum(rct_gras) = formula_sum(prd_gras)

InvalidReactionMsg == "Invalid reaction"

\* what classify_simple feeds into classify
normalized(gras) ==
    standard_keys_for_sequence(
        [i \in DOMAIN gras |-> without_stereo_parities(explicit(gras[i]))])

\* what classify_simple makes of the transformations classify returned
rxn_type(tras) ==
    IF ~NonEmpty(tras) THEN None
    ELSE Some((CHOOSE tra \in BagToSet(tras) : TRUE).rxn_class)

\* ------------------------------------------------------------- product enumerators
\* the part of gra on the atoms keys
subgraph(gra, keys) ==
    [atoms |-> [a \in keys |-> gra.atoms[a]],
     bonds |-> [k \in {b \in bond_keys(gra) : b \subseteq keys} |-> gra.bonds[k]]]

\* connected_components as the tuple of graphs the enumerators get, here in
\* the order of the least key (only its length and its union are read)
component_graphs(gra) ==
    LET comps == connected_components(gra)
        nth(i) == CHOOSE c \in comps :
                     Cardinality({d \in comps : Min(d) < Min(c)}) = i - 1
    IN [i \in 1..Cardinality(comps) |-> subgraph(gra, nth(i))]

\* no two unsaturated atoms are neighbours: the graph has one resonance
\* structure, and its radical sites are its unsaturated atoms
has_one_resonance(gra) ==
    \A a \in unsaturated_atom_keys(gra) :
        atom_neighbor_keys(gra)[a] \cap unsaturated_atom_keys(gra) = {}

resonance_dominant_radical_atom_keys(gra) == unsaturated_atom_keys(gra)

bonds_of_order(gra, mbond) == {k \in bond_keys(gra) : gra.bonds[k].ord = mbond}

\* atom_symbol_idxs(gra)[sym]
atom_symbol_idxs(gra, sym) == {a \in atom_keys(gra) : gra.atoms[a].sym = sym}

\* the sets chem_unique_atoms_of_type may return: one atom of the symbol for
\* every class of atoms whose removal gives isomorphic graphs
chem_unique_atoms_of_type(gra, sym) ==
    LET idxs == atom_symbol_idxs(gra, sym)
        class(a) == {b \in idxs : is_isomorphic(remove_atoms(gra, {a}),
                                                remove_atoms(gra, {b}))}
        T == [c \in {class(a) : a \in idxs} |-> c]
    IN {Range(f) : f \in choice_functions(T)}

\* an entry of a candidate list: a tuple of graphs, or a graph on its own,
\* which in Python is the pair (atoms, bonds)
graph_tuple(gras) == [bare |-> FALSE, gras |-> gras]

bare_graph(gra) == [bare |-> TRUE, gras |-> <<gra>>]

\* len(gra) of an entry
py_len(gra) == IF gra.bare THEN 2 ELSE Len(gra.gras)

TypeError == "TypeError"

\* a call of the graph library with arguments that are not graphs: what it
\* does is outside its contract; it raises or answers one way or the other
Unspecified == {"raise", "match", "none"}

\* one comparison of _unique_gras
compare_gras(gra, uni_gra) ==
    IF py_len(gra) = 1
    THEN \* full_isomorphism(gra, uni_gra), given the tuples themselves
         Unspecified
    ELSE IF gra.bare
    THEN \* union(*gra) of a graph on its own: union(atoms, bonds)
         Unspecified
    ELSE IF Len(gra.gras) # 2 THEN Unspecified
    ELSE IF uni_gra.bare THEN Unspecified
    ELSE IF Len(uni_gra.gras) < 2
    THEN \* union(*uni_gra) lacks an argument
         {"raise"}
    ELSE IF Len(uni_gra.gras) > 2 THEN Unspecified
    ELSE {IF is_isomorphic(union(gra.gras[1], gra.gras[2]),
                           union(uni_gra.gras[1], uni_gra.gras[2]))
          THEN "match" ELSE "none"}

\* the inner loop of _unique_gras from uni_gras[j] on: "new" or "old" for
\* new_uni, or "raise"
RECURSIVE scan_uni_gras(_, _, _)
scan_uni_gras(gra, uni_gras, j) ==
    IF j > Len(uni_gras) THEN {"new"}
    ELSE UNION {IF c = "raise" THEN {"raise"}
                ELSE IF c = "match" THEN {"old"}
                ELSE scan_uni_gras(gra, uni_gras, j + 1) :
                   c \in compare_gras(gra, uni_gras[j])}

EnumError(msg) == [err |-> msg, prod_gras |-> <<>>]

EnumReturn(prod_gras) == [err |-> NoError, prod_gras |-> prod_gras]

\* the outer loop of _unique_gras from gra_lst[i] on
RECURSIVE unique_gras_from(_, _, _)
unique_gras_from(gra_lst, i, uni_gras) ==
    IF i > Len(gra_lst) THEN {EnumReturn(uni_gras)}
    ELSE UNION {IF r = "raise" THEN {EnumError(TypeError)}
                ELSE IF r = "new"
                THEN unique_gras_from(gra_lst, i + 1,
                                      Append(uni_gras, gra_lst[i]))
                ELSE unique_gras_from(gra_lst, i + 1, uni_gras) :
                   r \in scan_uni_gras(gra_lst[i], uni_gras, 1)}

unique_gras(gra_lst) ==
    IF gra_lst = <<>> THEN {EnumReturn(<<>>)}
    ELSE unique_gras_from(gra_lst, 2, <<gra_lst[1]>>)

\* the candidates in every order the loops over unordered collections can
\* meet them, passed through _unique_gras
unique_in_any_order(cands) ==
    LET n == Cardinality(cands)
        lsts == {lst \in [1..n -> cands] :
                    \A i, j \in 1..n : i # j => lst[i] # lst[j]}
    IN UNION {unique_gras(lst) : lst \in lsts}

prod_addition(x_gra, y_gra_) ==
    LET shift == Cardinality(atom_keys(x_gra))
        y_gra == relabel(y_gra_, [a \in atom_keys(y_gra_) |-> a + shift])
        xy_gra(x_key, y_key) == add_bonds(union(x_gra, y_gra), {{x_key, y_key}})
    IN unique_in_any_order(
          {graph_tuple(<<xy_gra(x_key, y_key)>>) :
              x_key \in unsaturated_atom_keys(x_gra),
              y_key \in unsaturated_atom_keys(y_gra)})

prod_hydrogen_migration(gra) ==
    IF Cardinality(atom_keys(gra)) <= 2 THEN unique_gras(<<>>)
    ELSE LET rad_idxs == resonance_dominant_radical_atom_keys(gra)
             h_atm_key == Max(atom_keys(gra)) + 1
             gra2_h(h_idx, rad_idx) ==
                 add_atom_explicit_hydrogen_keys(remove_atoms(gra, {h_idx}),
                                                 rad_idx, h_atm_key)
             hits(uni_h_idxs) ==
                 {pr \in uni_h_idxs \X rad_idxs :
                     ~is_isomorphic(gra, gra2_h(pr[1], pr[2]))}
         IN UNION {unique_in_any_order(
                      {graph_tuple(<<gra2_h(pr[1], pr[2])>>) :
                          pr \in hits(uni_h_idxs)}) :
                    uni_h_idxs \in chem_unique_atoms_of_type(gra, "H")}

prod_beta_scission(gra) ==
    LET rad_idxs == resonance_dominant_radical_atom_keys(gra)
        single_bonds == bonds_of_order(gra, 1)
        hits == {pr \in rad_idxs \X single_bonds :
                    /\ atom_neighbor_keys(gra)[pr[1]] \cap pr[2] # {}
                    /\ pr[1] \notin pr[2]}
    IN unique_in_any_order(
          {graph_tuple(component_graphs(remove_bonds(gra, {pr[2]}))) :
              pr \in hits})

prod_homolytic_scission(gra) ==
    unique_in_any_order(
        {graph_tuple(component_graphs(remove_bonds(gra, {bond}))) :
            bond \in bonds_of_order(gra, 1)})

prod_group_loss(gra, grp) ==
    unique_in_any_order(
        {bare_graph(remove_atoms(gra, {idx})) :
            idx \in atom_symbol_idxs(gra, grp)})

PROD_ADDITION == "prod_addition"
PROD_HYDROGEN_MIGRATION == "prod_hydrogen_migration"
PROD_BETA_SCISSION == "prod_beta_scission"
PROD_HOMOLYTIC_SCISSION == "prod_homolytic_scission"
PROD_GROUP_LOSS == "_prod_group_loss"

Enumerators ==
    {PROD_ADDITION, PROD_HYDROGEN_MIGRATION, PROD_BETA_SCISSION,
     PROD_HOMOLYTIC_SCISSION, PROD_GROUP_LOSS}

\* the outcomes of the enumerator named prod, given the graphs gras
prod_finder(prod, gras) ==
    CASE prod = PROD_ADDITION -> prod_addition(gras[1], gras[2])
      [] prod = PROD_HYDROGEN_MIGRATION -> prod_hydrogen_migration(gras[1])
      [] prod = PROD_BETA_SCISSION -> prod_beta_scission(gras[1])
      [] prod = PROD_HOMOLYTIC_SCISSION -> prod_homolytic_scission(gras[1])
      [] prod = PROD_GROUP_LOSS -> prod_group_loss(gras[1], "H")

\* ------------------------------------------------------------- inputs
atom(sym) == [sym |-> sym, imp |-> 0, ste |-> NoParity]

\* a molecule with atoms keyed 0, 1, ... in the order of syms, single bonds
mol(syms, bnds) ==
    [atoms |-> [k \in 0..(Len(syms) - 1) |-> atom(syms[k + 1])],
     bonds |-> [b \in bnds |-> [ord |-> 1, ste |-> NoParity]]]

Species ==
    << mol(<<"H">>, {}),
       mol(<<"O">>, {}),
       mol(<<"H", "H">>, {{0, 1}}),
       mol(<<"O", "H">>, {{0, 1}}),
       mol(<<"H", "N">>, {{0, 1}}),
       mol(<<"N", "O">>, {{0, 1}}),
       mol(<<"H", "O", "H">>, {{0, 1}, {1, 2}}),
       mol(<<"H", "N", "O">>, {{0, 1}, {1, 2}}),
       mol(<<"N", "O", "H">>, {{0, 1}, {1, 2}}),
       mol(<<"O", "O", "O">>, {{0, 1}, {1, 2}, {0, 2}}),
       mol(<<"N", "H", "H", "O">>, {{0, 1}, {0, 2}, {0, 3}}),
       mol(<<"H", "N", "O", "H">>, {{0, 1}, {1, 2}, {2, 3}}),
       mol(<<"O", "O", "O", "H">>, {{0, 1}, {1, 2}, {2, 3}}),
       mol(<<"H", "N", "H", "N">>, {{0, 1}, {1, 2}, {1, 3}}),
       mol(<<"O", "O">>, {{0, 1}}),
       mol(<<"H", "O", "O">>, {{0, 1}, {1, 2}}),
       mol(<<"O", "O", "O", "O">>, {{0, 1}, {1, 2}, {2, 3}}) >>

\* every list of at most MaxReagents species with at most MaxAtoms atoms in
\* all, with keys made disjoint along the list
ValidLists ==
    LET picks(n) ==
            {s \in [1..n -> 1..Len(Species)] :
                SumOver(1..n, [i \in 1..n |->
                                  Cardinality(atom_keys(Species[s[i]]))])
                <= MaxAtoms}
    IN UNION {{standard_keys_for_sequence([i \in DOMAIN s |-> Species[s[i]]]) :
                  s \in picks(n)} : n \in 0..MaxReagents}

\* a hydroxyl whose hydrogen is implicit
ImplicitOH ==
    [atoms |-> (0 :> [sym |-> "O", imp |-> 1, ste |-> NoParity]), bonds |-> <<>>]

\* NH with a stereo parity on the nitrogen, NO with one on the bond
StereoNH ==
    [atoms |-> (0 :> [sym |-> "N", imp |-> 0, ste |-> "True"]) @@ (1 :> atom("H")),
     bonds |-> ({0, 1} :> [ord |-> 1, ste |-> NoParity])]

StereoNO ==
    [atoms |-> (0 :> atom("N")) @@ (1 :> atom("O")),
     bonds |-> ({0, 1} :> [ord |-> 1, ste |-> "False"])]

\* lists that break the contract of the reagent lists: implicit hydrogens,
\* stereo parities, graphs keyed from 0 each so that their keys overlap, and
\* two of these at once
DefectLists ==
    { <<ImplicitOH>>,
      <<StereoNH>>,
      <<StereoNO>>,
      <<Species[1], Species[2]>>,
      <<Species[4], Species[3]>>,
      standard_keys_for_sequence(<<Species[1], ImplicitOH>>),
      standard_keys_for_sequence(<<ImplicitOH, StereoNH>>),
      <<Species[3], StereoNH>> }

\* lists that keep the contract with a graph that is not connected: an
\* oxygen atom and a hydrogen atom in one graph, two hydrogen atoms in one
FragmentedLists ==
    {standard_keys_for_sequence(<<mol(<<"O", "H">>, {}),
                                  mol(<<"O", "O">>, {{0, 1}})>>),
     standard_keys_for_sequence(<<mol(<<"O">>, {}),
                                  mol(<<"H", "H">>, {})>>)}

ReagentLists == ValidLists \cup DefectLists \cup FragmentedLists

\* the place of a graph's species in the catalogue, 0 for a graph that is
\* none of them
species_index(gra) ==
    IF \E k \in 1..Len(Species) : full_isomorphism(Species[k], gra) # {}
    THEN CHOOSE k \in 1..Len(Species) : full_isomorphism(Species[k], gra) # {}
    ELSE 0

\* the reactant lists: of the lists of more than two graphs, which only
\* trivial_reaction reads, those in the order of the catalogue; the product
\* list takes every order against them
ReactantLists ==
    {gras \in ReagentLists :
        \/ Len(gras) <= 2
        \/ \A i \in 1..(Len(gras) - 1) :
              species_index(gras[i]) <= species_index(gras[i + 1])}

\* ------------------------------------------------------------- state
VARIABLES rct_gras, prd_gras, entry, pc, called, rets, ret

vars == <<rct_gras, prd_gras, entry, pc, called, rets, ret>>

Init ==
    /\ rct_gras \in ReactantLists
    /\ prd_gras \in ReagentLists
    /\ entry = "none"
    /\ pc = "idle"
    /\ called = <<>>
    /\ rets = <<>>
    /\ ret = Return(EmptyBag, None, None)

\* classify, up to the formula assertion
Classify ==
    /\ pc = "idle"
    /\ entry' = "classify"
    /\ IF is_valid_reaction(rct_gras, prd_gras)
       THEN pc' = "finders" /\ ret' = ret
       ELSE pc' = "raised" /\ ret' = Raise(InvalidReactionMsg)
    /\ UNCHANGED <<rct_gras, prd_gras, called, rets>>

\* classify_simple: the inputs are normalised and handed to classify
ClassifySimple ==
    /\ pc = "idle"
    /\ entry' = "classify_simple"
    /\ rct_gras' = normalized(rct_gras)
    /\ prd_gras' = normalized(prd_gras)
    /\ IF is_valid_reaction(rct_gras', prd_gras')
       THEN pc' = "finders" /\ ret' = ret
       ELSE pc' = "raised" /\ ret' = Raise(InvalidReactionMsg)
    /\ UNCHANGED <<called, rets>>

\* one turn of classify's loop over the finders, with the return after it
Finder ==
    /\ pc = "finders"
    /\ LET rxn_class == REACTION_FINDER_DCT[Len(called) + 1]
       IN \E out \in rxn_finder(rxn_class, rct_gras, prd_gras) :
             /\ called' = Append(called, rxn_class)
             /\ rets' = Append(rets, out)
             /\ ret' = out
             /\ pc' = IF out.err # NoError THEN "raised"
                      ELSE IF NonEmpty(out.tras)
                              \/ Len(called') = Len(REACTION_FINDER_DCT)
                      THEN "returned"
                      ELSE "finders"
    /\ UNCHANGED <<rct_gras, prd_gras, entry>>

\* one classifier called on its own
Classifiers == Range(REACTION_FINDER_DCT) \cup {RING_FORM_SCISSION}

CallClassifier ==
    /\ pc = "idle"
    /\ \E rxn_class \in Classifiers :
         \E out \in rxn_finder(rxn_class, rct_gras, prd_gras) :
            /\ entry' = rxn_class
            /\ called' = <<rxn_class>>
            /\ rets' = <<out>>
            /\ ret' = out
            /\ pc' = IF out.err # NoError THEN "raised" ELSE "returned"
    /\ UNCHANGED <<rct_gras, prd_gras>>

\* one product enumerator called on the reactants: explicit graphs, two of
\* them for prod_addition and one for the others, with one resonance
\* structure where the radical sites are asked for and with a hydrogen to
\* lose for _prod_group_loss; the product list plays no part and is empty
CallEnumerator ==
    /\ pc = "idle"
    /\ prd_gras = <<>>
    /\ rct_gras \in ValidLists
    /\ \E prod \in Enumerators :
         /\ Len(rct_gras) = IF prod = PROD_ADDITION THEN 2 ELSE 1
         /\ prod \in {PROD_HYDROGEN_MIGRATION, PROD_BETA_SCISSION} =>
               has_one_resonance(rct_gras[1])
         /\ prod = PROD_GROUP_LOSS => atom_symbol_idxs(rct_gras[1], "H") # {}
         /\ \E out \in prod_finder(prod, rct_gras) :
               /\ entry' = prod
               /\ ret' = out
               /\ pc' = IF out.err # NoError THEN "raised" ELSE "returned"
    /\ UNCHANGED <<rct_gras, prd_gras, called, rets>>

Next == Classify \/ ClassifySimple \/ Finder \/ CallClassifier \/ CallEnumerator

Spec == Init /\ [][Next]_vars

\* ------------------------------------------------------------- claims
\* classify or classify_simple has returned
ClassifyReturned == entry \in {"classify", "classify_simple"} /\ pc = "returned"

\* the classifier named rxn_class, called on its own, has returned
Returned(rxn_class) == entry = rxn_class /\ pc = "returned"

\* C1: whenever classify returns, the transformations are non-empty and both
\* orderings are not None, or the transformations are empty and both
\* orderings are None; never a mix
C1_NoMix ==
    ClassifyReturned =>
        \/ NonEmpty(ret.tras) /\ ret.rct_idxs # None /\ ret.prd_idxs # None
        \/ ~NonEmpty(ret.tras) /\ ret.rct_idxs = None /\ ret.prd_idxs = None

\* classify returned a match found by beta scission, and elsewhere no match
C1_Witness ==
    /\ ClassifyReturned
    /\ called[Len(called)] = BETA_SCISSION
    /\ NonEmpty(ret.tras)
    /\ ret.prd_idxs = Some(<<1, 0>>)

\* C2: classify calls the classifiers in the order trivial, hydrogen
\* migration, hydrogen abstraction, addition, beta scission, elimination,
\* insertion, substitution, each on the lists it was given; every classifier
\* called before the last one found nothing; what classify returns is the
\* result of the last one called, which found something or is substitution
C2_Order ==
    LET order == <<"trivial", "hydrogen migration", "hydrogen abstraction",
                   "addition", "beta scission", "elimination", "insertion",
                   "substitution">>
    IN entry \in {"classify", "classify_simple"} =>
        /\ Len(called) <= 8 /\ Len(rets) = Len(called)
        /\ \A i \in 1..Len(called) :
              /\ called[i] = order[i]
              /\ rets[i] \in rxn_finder(order[i], rct_gras, prd_gras)
        /\ \A i \in 1..(Len(rets) - 1) :
              rets[i].err = NoError /\ ~NonEmpty(rets[i].tras)
        /\ pc = "finders" =>
              \A i \in 1..Len(rets) : rets[i].err = NoError /\ ~NonEmpty(rets[i].tras)
        /\ pc = "returned" =>
              /\ called # <<>>
              /\ ret = rets[Len(rets)]
              /\ NonEmpty(ret.tras) \/ called[Len(called)] = "substitution"

\* classify stopped at elimination, the sixth classifier, with its match
C2_Witness ==
    /\ ClassifyReturned
    /\ Len(called) = 6
    /\ NonEmpty(ret.tras)
    /\ ret \in elimination(rct_gras, prd_gras)

\* the products are the reactants up to isomorphism and permutation
IsPermutedCopy(rcts, prds) ==
    /\ Len(rcts) = Len(prds)
    /\ \E p \in [1..Len(rcts) -> 1..Len(prds)] :
          /\ \A i, j \in 1..Len(rcts) : i # j => p[i] # p[j]
          /\ \A i \in 1..Len(rcts) : full_isomorphism(rcts[i], prds[p[i]]) # {}

\* C3: trivial_reaction on valid lists returns exactly the one transformation
\* of class TRIVIAL with no bond formed or broken when the products are the
\* reactants up to isomorphism and permutation, and no transformation and no
\* ordering otherwise; classify and classify_simple then report TRIVIAL
C3_Trivial ==
    /\ Returned(TRIVIAL) =>
          IF IsPermutedCopy(rct_gras, prd_gras)
          THEN ret.tras = SetToBag({[rxn_class |-> "trivial",
                                     frm_bnd_keys |-> {}, brk_bnd_keys |-> {}]})
          ELSE ret = Return(EmptyBag, None, None)
    /\ (ClassifyReturned /\ IsPermutedCopy(rct_gras, prd_gras)) =>
          rxn_type(ret.tras) = Some("trivial")

\* two reactants matched by the products in the other order
C3_Witness ==
    /\ Returned(TRIVIAL)
    /\ NonEmpty(ret.tras)
    /\ Len(rct_gras) = 2
    /\ full_isomorphism(rct_gras[1], prd_gras[1]) = {}

\* C4: when trivial_reaction succeeds on n reactants and n products, each of
\* the two orderings is a permutation of 0..n-1 and at every position the
\* reactant the reactant ordering names is isomorphic to the product the
\* product ordering names in the list the caller gave
C4_Pairing ==
    (Returned(TRIVIAL) /\ NonEmpty(ret.tras)) =>
        LET n == Len(rct_gras)
        IN \A r \in ret.rct_idxs, p \in ret.prd_idxs :
              /\ Len(r) = n /\ Len(p) = n
              /\ Range(r) = 0..(n - 1) /\ Range(p) = 0..(n - 1)
              /\ \A i \in 1..n :
                    full_isomorphism(rct_gras[r[i] + 1], prd_gras[p[i] + 1]) # {}

\* some graph of the list has implicit hydrogens or a stereo parity, or two
\* graphs of the list share an atom key
BreaksContract(gras) ==
    \/ \E i \in DOMAIN gras : \E a \in DOMAIN gras[i].atoms :
          gras[i].atoms[a].imp > 0 \/ gras[i].atoms[a].ste # "None"
    \/ \E i \in DOMAIN gras : \E b \in DOMAIN gras[i].bonds :
          gras[i].bonds[b].ste # "None"
    \/ \E i, j \in DOMAIN gras :
          i # j /\ (DOMAIN gras[i].atoms) \cap (DOMAIN gras[j].atoms) # {}

\* C5: each of the eight dispatched classifiers, called with a reactant list
\* or a product list in which a graph has implicit hydrogens or a stereo
\* parity or two graphs share an atom key, fails with the validator's error
\* and returns nothing, whatever the lengths of the lists; with two lists
\* that are sound each on its own the validator does not fail, also when a
\* reactant and a product share atom keys
C5_Validates ==
    LET dispatched == {"trivial", "hydrogen migration", "hydrogen abstraction",
                       "addition", "beta scission", "elimination", "insertion",
                       "substitution"}
        contract == {ImplicitMsg, StereoMsg, OverlapMsg}
    IN entry \in dispatched =>
          IF BreaksContract(rct_gras) \/ BreaksContract(prd_gras)
          THEN /\ pc = "raised"
               /\ ret.err \in contract
               /\ ret.tras = EmptyBag
               /\ ret.rct_idxs = None /\ ret.prd_idxs = None
          ELSE ret.err \notin contract

\* addition, called with one sound reactant (so the lengths do not fit) and
\* products that break the contract, has failed with the validator's error
C5_Witness ==
    /\ entry = ADDITION
    /\ pc = "raised"
    /\ Len(rct_gras) = 1
    /\ ~BreaksContract(rct_gras)
    /\ BreaksContract(prd_gras)
    /\ ret.err \in {ImplicitMsg, StereoMsg, OverlapMsg}

\* the number of atoms of element sym in the list, implicit hydrogens counted
ElementCount(gras, sym) ==
    SumOver(DOMAIN gras,
            [i \in DOMAIN gras |->
                SumOver(DOMAIN gras[i].atoms,
                        [a \in DOMAIN gras[i].atoms |->
                            (IF gras[i].atoms[a].sym = sym THEN 1 ELSE 0)
                            + (IF sym = "H" THEN gras[i].atoms[a].imp ELSE 0)])])

Unbalanced ==
    \E sym \in {"H", "N", "O"} :
        ElementCount(rct_gras, sym) # ElementCount(prd_gras, sym)

\* C6: when the formulas of the reactants and of the products do not
\* balance, classify (and classify_simple through it) fails with the
\* formula assertion before any classifier has been called, and produces no
\* transformation and no ordering; when they balance the assertion passes
C6_FormulaFirst ==
    entry \in {"classify", "classify_simple"} =>
        IF Unbalanced
        THEN /\ pc = "raised"
             /\ ret.err = "Invalid reaction"
             /\ called = <<>> /\ rets = <<>>
             /\ ret.tras = EmptyBag
             /\ ret.rct_idxs = None /\ ret.prd_idxs = None
        ELSE ret.err # "Invalid reaction"

\* classify has failed on the formulas of lists that the validator of the
\* trivial classifier would have rejected
C6_Witness ==
    /\ entry = "classify"
    /\ pc = "raised"
    /\ ret.err = InvalidReactionMsg
    /\ BreaksContract(rct_gras)
    /\ called = <<>>

\* C7: every classifier, ring-forming scission among them, that returns no
\* transformation on validated inputs returns None for the reactant ordering
\* and for the product ordering
C7_NoMatch ==
    LET classifiers == {"trivial", "hydrogen migration", "hydrogen abstraction",
                        "addition", "beta scission", "ring forming scission",
                        "elimination", "insertion", "substitution"}
    IN (entry \in classifiers /\ pc = "returned" /\ ~NonEmpty(ret.tras)) =>
          ret.rct_idxs = None /\ ret.prd_idxs = None

\* the classifiers that read atom keys out of the oracle's mapping
MappingReaders ==
    {HYDROGEN_MIGRATION, HYDROGEN_ABSTRACTION, SUBSTITUTION, ELIMINATION}

\* C8: for fixed validated inputs, hydrogen migration, hydrogen abstraction,
\* substitution and elimination return the same transformations (class,
\* formed and broken bond keys) and the same two orderings under every
\* choice of the mappings the oracle may return
C8_SameUnderEveryChoice ==
    (entry \in MappingReaders /\ pc = "returned") =>
        \A out \in rxn_finder(entry, rct_gras, prd_gras) :
            /\ BagToSet(out.tras) = BagToSet(ret.tras)
            /\ out.rct_idxs = ret.rct_idxs
            /\ out.prd_idxs = ret.prd_idxs

\* the transformation edits bonds of the reactants and takes them to the
\* products up to isomorphism
TakesReactantsToProducts(tra) ==
    LET rct_gra == union_from_sequence(rct_gras)
        prd_gra == union_from_sequence(prd_gras)
    IN /\ tra.brk_bnd_keys \subseteq bond_keys(rct_gra)
       /\ tra.frm_bnd_keys \cap bond_keys(rct_gra) = {}
       /\ \A k \in tra.frm_bnd_keys :
             Cardinality(k) = 2 /\ k \subseteq atom_keys(rct_gra)
       /\ full_isomorphism(apply(tra, rct_gra), prd_gra) # {}

\* C8 as amended: under every choice of the mappings, a classifier that reads
\* keys out of the mapping returns without error, finds something or nothing
\* alike, with the same reactant ordering, transformations of its own class
\* only, and every transformation takes the reactants to the products;
\* hydrogen migration, hydrogen abstraction and substitution return the same
\* product ordering, hydrogen migration and hydrogen abstraction the same
\* number of transformations, elimination the same transformations, and
\* elimination with one transformation and products that are not isomorphic
\* to each other the same product ordering
C8_AnyMapping ==
    (entry \in MappingReaders /\ pc = "returned") =>
        \A out \in rxn_finder(entry, rct_gras, prd_gras) :
            /\ out.err = NoError
            /\ NonEmpty(out.tras) <=> NonEmpty(ret.tras)
            /\ out.rct_idxs = ret.rct_idxs
            /\ \A tra \in BagToSet(out.tras) :
                  tra.rxn_class = entry /\ TakesReactantsToProducts(tra)
            /\ entry # ELIMINATION => out.prd_idxs = ret.prd_idxs
            /\ entry \in {HYDROGEN_MIGRATION, HYDROGEN_ABSTRACTION} =>
                  BagCardinality(out.tras) = BagCardinality(ret.tras)
            /\ entry = ELIMINATION =>
                  /\ out.tras = ret.tras
                  /\ out.prd_idxs \in {None, Some(<<0, 1>>), Some(<<1, 0>>)}
                  /\ (/\ BagCardinality(ret.tras) = 1
                      /\ full_isomorphism(prd_gras[1], prd_gras[2]) = {}) =>
                        out.prd_idxs = ret.prd_idxs

\* hydrogen abstraction has returned transformations that another choice of
\* the mappings would have given other bond keys
C8_Witness ==
    /\ Returned(HYDROGEN_ABSTRACTION)
    /\ NonEmpty(ret.tras)
    /\ \E out \in hydrogen_abstraction(rct_gras, prd_gras) :
          BagToSet(out.tras) # BagToSet(ret.tras)

\* the ordering names the graphs of the list from the largest to the smallest
SizeDescending(gras, idxs) ==
    /\ Range(idxs) = 0..(Len(gras) - 1)
    /\ Len(idxs) = Len(gras)
    /\ \A i, j \in 1..Len(idxs) :
          i < j => ~tuple_less(sort_value(gras[idxs[j] + 1]),
                               sort_value(gras[idxs[i] + 1]))

\* C9: beta scission of reactants into products finds something exactly when
\* addition of the products to the reactants does; its transformations are
\* the reverses of addition's, each once: class beta scission, nothing
\* formed, the bond addition forms broken; its reactant ordering is
\* addition's product ordering (0,) and its product ordering addition's
\* reactant ordering, the products from the largest to the smallest
C9_ReverseOfAddition ==
    Returned(BETA_SCISSION) =>
        LET rct_gra == union_from_sequence(rct_gras)
            prd_gra == union_from_sequence(prd_gras)
        IN \A add \in addition(prd_gras, rct_gras) :
              /\ add.err = NoError
              /\ NonEmpty(ret.tras) <=> NonEmpty(add.tras)
              /\ ret.rct_idxs = add.prd_idxs
              /\ ret.prd_idxs = add.rct_idxs
              /\ NonEmpty(ret.tras) =>
                    /\ ret.rct_idxs = Some(<<0>>)
                    /\ \A idxs \in ret.prd_idxs : SizeDescending(prd_gras, idxs)
              /\ \A tra \in BagToSet(ret.tras) :
                    /\ ret.tras[tra] = 1
                    /\ tra.rxn_class = "beta scission"
                    /\ tra.frm_bnd_keys = {}
                    /\ TakesReactantsToProducts(tra)
                    /\ \E t \in BagToSet(add.tras) :
                          tra \in reverse(t, prd_gra, rct_gra)
              /\ \A t \in BagToSet(add.tras) :
                    /\ t.rxn_class = "addition"
                    /\ \E tra \in BagToSet(ret.tras) :
                          tra \in reverse(t, prd_gra, rct_gra)

\* beta scission has found the one bond to break where addition finds two
\* ways to form it, with the smaller product first in the list
C9_Witness ==
    /\ Returned(BETA_SCISSION)
    /\ BagCardinality(ret.tras) = 1
    /\ ret.rct_idxs = Some(<<0>>)
    /\ ret.prd_idxs = Some(<<1, 0>>)
    /\ \E add \in addition(prd_gras, rct_gras) : BagCardinality(add.tras) = 2

\* C10: with one reactant and one product, hydrogen_migration finds a
\* transformation exactly when it finds one for the reversed pair; a pair
\* classify reports as a hydrogen migration is one the reversed pair is
\* reported as too (not trivial, and hydrogen migration finds something)
C10_Symmetry ==
    /\ (Returned(HYDROGEN_MIGRATION) /\ Len(rct_gras) = 1 /\ Len(prd_gras) = 1) =>
          \A back \in hydrogen_migration(prd_gras, rct_gras) :
              /\ back.err = NoError
              /\ NonEmpty(back.tras) <=> NonEmpty(ret.tras)
    /\ (ClassifyReturned /\ rxn_type(ret.tras) = Some("hydrogen migration")) =>
          /\ \A back \in trivial_reaction(prd_gras, rct_gras) :
                back.err = NoError /\ ~NonEmpty(back.tras)
          /\ \A back \in hydrogen_migration(prd_gras, rct_gras) :
                back.err = NoError /\ NonEmpty(back.tras)

\* hydrogen migration has found the move of a hydrogen to a site whose key
\* is below the key of the site it leaves
C10_Witness ==
    /\ Returned(HYDROGEN_MIGRATION)
    /\ NonEmpty(ret.tras)
    /\ \E tra \in BagToSet(ret.tras) :
          \E frm \in tra.frm_bnd_keys, brk \in tra.brk_bnd_keys :
              Max(frm \ brk) < Max(brk \ frm)

\* qh_gra is q_gra with one more hydrogen, by the elements of the formula
PlusHydrogen(qh_gra, q_gra) ==
    \A sym \in {"H", "N", "O"} :
        ElementCount(<<qh_gra>>, sym)
            = ElementCount(<<q_gra>>, sym) + (IF sym = "H" THEN 1 ELSE 0)

\* the unsaturated atoms of q_gra where one more hydrogen gives qh_gra
AbstractionSites(qh_gra, q_gra) ==
    {a \in unsaturated_atom_keys(q_gra) :
        full_isomorphism(
            add_atom_explicit_hydrogen_keys(q_gra, a, Max(atom_keys(q_gra)) + 1),
            qh_gra) # {}}

\* what hydrogen_abstraction has returned for two reactants and two products
\* that are not a trivial reaction and that the formulas pair as
\* R1H + R2 -> R2H + R1: one transformation per pair of sites, each breaking
\* a bond of R1H between a donor atom and one of its hydrogens and joining
\* that hydrogen to a site of R2, with the orderings of the pairing;
\* heavy_donor asks for a donor atom that is not a hydrogen
AbstractionResult(heavy_donor) ==
    (/\ Returned(HYDROGEN_ABSTRACTION)
     /\ Len(rct_gras) = 2 /\ Len(prd_gras) = 2
     /\ ~IsPermutedCopy(rct_gras, prd_gras)) =>
        \A pairing \in argsort_hydrogen_abstraction(
                           [i \in 1..2 |-> formula(rct_gras[i])],
                           [i \in 1..2 |-> formula(prd_gras[i])]) :
            LET q1h_gra == rct_gras[pairing[1][1] + 1]
                q2_gra == rct_gras[pairing[1][2] + 1]
                q2h_gra == prd_gras[pairing[2][1] + 1]
                q1_gra == prd_gras[pairing[2][2] + 1]
                sites1 == AbstractionSites(q1h_gra, q1_gra)
                sites2 == AbstractionSites(q2h_gra, q2_gra)
            IN /\ PlusHydrogen(q1h_gra, q1_gra) /\ PlusHydrogen(q2h_gra, q2_gra)
               /\ BagCardinality(ret.tras)
                     = Cardinality(sites1) * Cardinality(sites2)
               /\ NonEmpty(ret.tras) =>
                     /\ ret.rct_idxs = Some(pairing[1])
                     /\ ret.prd_idxs = Some(pairing[2])
               /\ \A tra \in BagToSet(ret.tras) :
                     /\ tra.rxn_class = "hydrogen abstraction"
                     /\ \E d \in atom_keys(q1h_gra), h \in atom_keys(q1h_gra),
                          a \in sites2 :
                           /\ tra.brk_bnd_keys = {{d, h}}
                           /\ tra.frm_bnd_keys = {{a, h}}
                           /\ {d, h} \in bond_keys(q1h_gra)
                           /\ q1h_gra.atoms[h].sym = "H"
                           /\ heavy_donor => q1h_gra.atoms[d].sym # "H"

whole_graph(gra) == union_from_sequence(gra.gras)

\* C12: prod_addition, prod_hydrogen_migration, prod_beta_scission,
\* prod_homolytic_scission and _prod_group_loss return their results with no
\* two of them isomorphic to each other, a result of several fragments taken
\* as the union of its fragments, whether the candidates are tuples of one
\* graph, tuples of several component graphs, or graphs on their own
C12_Unique ==
    entry \in {"prod_addition", "prod_hydrogen_migration", "prod_beta_scission",
               "prod_homolytic_scission", "_prod_group_loss"} =>
        /\ pc = "returned"
        /\ \A i, j \in 1..Len(ret.prod_gras) :
              i < j => full_isomorphism(whole_graph(ret.prod_gras[i]),
                                        whole_graph(ret.prod_gras[j])) = {}

\* the radical site rad_atm admits an edit that matches the products: a bond
\* to an atom that is not its neighbour, formed while that atom loses a bond
\* to one of its other neighbours
SiteMatches(rad_atm) ==
    LET rgra == rct_gras[1]
        pgra == union_from_sequence(prd_gras)
    IN \E xatm \in atom_keys(rgra) \ ({rad_atm} \cup atom_neighbor_keys(rgra)[rad_atm]) :
          \E natm \in atom_neighbor_keys(rgra)[xatm] \ {rad_atm} :
              full_isomorphism(
                  remove_bonds(add_bonds(rgra, {{rad_atm, xatm}}),
                               {{xatm, natm}}), pgra) # {}

\* ring_forming_scission has returned for one reactant and two products that
\* are not a trivial reaction
RingSearched ==
    /\ Returned(RING_FORM_SCISSION)
    /\ Len(rct_gras) = 1 /\ Len(prd_gras) = 2
    /\ ~IsPermutedCopy(rct_gras, prd_gras)

\* C13: ring_forming_scission stops at the first matching edit of each
\* radical site and goes on with the other sites: it returns one
\* transformation for every unsaturated atom of the reactant that admits a
\* matching edit
C13_PerSite ==
    RingSearched =>
        LET sites == {a \in unsaturated_atom_keys(rct_gras[1]) : SiteMatches(a)}
        IN /\ BagCardinality(ret.tras) = Cardinality(sites)
           /\ \A a \in sites : \E tra \in BagToSet(ret.tras) :
                 \E frm \in tra.frm_bnd_keys : a \in frm

\* C13 as amended: the first matching edit closes the whole search:
\* ring_forming_scission returns one transformation when some radical site
\* admits a matching edit and none otherwise, and the one returned is a
\* matching edit of one such site
C13_FirstFit ==
    RingSearched =>
        LET sites == {a \in unsaturated_atom_keys(rct_gras[1]) : SiteMatches(a)}
        IN /\ BagCardinality(ret.tras) = IF sites = {} THEN 0 ELSE 1
           /\ \A tra \in BagToSet(ret.tras) :
                 /\ tra.rxn_class = "ring forming scission"
                 /\ \E a \in sites : \E frm \in tra.frm_bnd_keys : a \in frm
                 /\ Cardinality(tra.frm_bnd_keys) = 1
                 /\ Cardinality(tra.brk_bnd_keys) = 1
                 /\ TakesReactantsToProducts(tra)

\* ring_forming_scission has returned its one transformation for a reactant
\* with two radical sites that both admit a matching edit
C13_Witness ==
    /\ RingSearched
    /\ BagCardinality(ret.tras) = 1
    /\ Cardinality({a \in unsaturated_atom_keys(rct_gras[1]) : SiteMatches(a)}) = 2

\* C14: in ring_forming_scission the atom the radical site is bonded to is
\* never a hydrogen: with no match found, so that every candidate has been
\* tried, no trial graph was built for a hydrogen, and no transformation
\* returned forms a bond to a hydrogen
C14_HeavyOnly ==
    RingSearched =>
        /\ ~NonEmpty(ret.tras) =>
              \A t \in ring_forming_trials(rct_gras[1]) :
                  rct_gras[1].atoms[t[2]].sym # "H"
        /\ \A tra \in BagToSet(ret.tras) : \A frm \in tra.frm_bnd_keys :
              \A a \in frm : rct_gras[1].atoms[a].sym # "H"

\* the triple the size ordering compares
SizeTriple(gra) ==
    <<heavy_atom_count(gra), atom_count(gra), electron_count(gra)>>

\* u comes after v in the lexicographic order of triples
LexGreater(u, v) ==
    \/ u[1] > v[1]
    \/ u[1] = v[1] /\ u[2] > v[2]
    \/ u[1] = v[1] /\ u[2] = v[2] /\ u[3] > v[3]

\* idxs lists each index of gras once, no later species has a greater triple
\* than an earlier one, and species with equal triples stay in list order
StableSizeOrder(gras, idxs) ==
    /\ Len(idxs) = Len(gras)
    /\ \A k \in 0..(Len(gras) - 1) :
          Cardinality({p \in 1..Len(idxs) : idxs[p] = k}) = 1
    /\ \A p, q \in 1..Len(idxs) :
          p < q =>
             /\ ~LexGreater(SizeTriple(gras[idxs[q] + 1]),
                            SizeTriple(gras[idxs[p] + 1]))
             /\ SizeTriple(gras[idxs[q] + 1]) = SizeTriple(gras[idxs[p] + 1])
                   => idxs[p] < idxs[q]

\* the orderings addition, ring_forming_scission and substitution have
\* taken from the size ordering, each with the list it orders
SizeOrdered ==
    (IF Returned(ADDITION) \/ Returned(SUBSTITUTION)
     THEN {<<rct_gras, idxs>> : idxs \in ret.rct_idxs} ELSE {})
    \cup
    (IF Returned(RING_FORM_SCISSION) \/ Returned(SUBSTITUTION)
     THEN {<<prd_gras, idxs>> : idxs \in ret.prd_idxs} ELSE {})

\* C15: the size ordering of addition, ring-forming scission and
\* substitution is a permutation of the indices of the list, along which
\* the triple (heavy atoms, atoms, electrons) never grows, and species with
\* equal triples keep the order they have in the list
C15_SizeOrder ==
    \A o \in SizeOrdered : StableSizeOrder(o[1], o[2])

\* a list of two species with equal triples has been ordered, and the two
\* have kept their places
C15_Witness ==
    \E o \in SizeOrdered :
        /\ Len(o[1]) = 2
        /\ SizeTriple(o[1][1]) = SizeTriple(o[1][2])
        /\ o[2] = <<0, 1>>

\* elimination has been called on its own with one reactant and two
\* products that keep the contract of the reagent lists
EliminationCalled ==
    /\ entry = ELIMINATION
    /\ pc \in {"returned", "raised"}
    /\ ~BreaksContract(rct_gras) /\ ~BreaksContract(prd_gras)
    /\ Len(rct_gras) = 1 /\ Len(prd_gras) = 2

\* the fragment of the reactant, the two bonds of tra broken, that holds
\* neither end of the bond formed
CentralOf(tra) ==
    LET gra == remove_bonds(rct_gras[1], tra.brk_bnd_keys)
    IN atom_keys(gra) \ reach(gra, UNION tra.frm_bnd_keys)

MigrationSearched ==
    /\ Returned(HYDROGEN_MIGRATION)
    /\ ~BreaksContract(rct_gras) /\ ~BreaksContract(prd_gras)
    /\ Len(rct_gras) = 1 /\ Len(prd_gras) = 1
    /\ ~IsPermutedCopy(rct_gras, prd_gras)

\* tra moves one hydrogen of gra: it breaks the bond of the hydrogen to its
\* neighbour and forms a new bond of the same hydrogen to an unsaturated atom
MovesHydrogenOf(gra, tra) ==
    \E h \in atom_keys(gra) :
        /\ gra.atoms[h].sym = "H"
        /\ \E n \in atom_neighbor_keys(gra)[h] : tra.brk_bnd_keys = {{h, n}}
        /\ \E a \in unsaturated_atom_keys(gra) \ {h} :
              /\ tra.frm_bnd_keys = {{h, a}}
              /\ {h, a} \notin bond_keys(gra)
        /\ tra.frm_bnd_keys # tra.brk_bnd_keys

\* C17: every transformation hydrogen_migration returns for a validated,
\* non-trivial reactant and product is written in atom keys of the reactant
\* alone: it breaks an existing bond between a hydrogen and its neighbour
\* and forms a bond, not yet in the reactant and other than the broken one,
\* between that hydrogen and an unsaturated atom of the reactant; so for
\* every mapping the isomorphism search may return
C17_ReactantKeys ==
    MigrationSearched =>
        \A tra \in BagToSet(ret.tras) :
            /\ UNION (tra.frm_bnd_keys \cup tra.brk_bnd_keys)
                  \subseteq atom_keys(rct_gras[1])
            /\ MovesHydrogenOf(rct_gras[1], tra)

\* hydrogen_migration has returned a transformation where another mapping
\* would have moved another hydrogen
C17_Witness ==
    /\ MigrationSearched
    /\ NonEmpty(ret.tras)
    /\ \E out \in hydrogen_migration(rct_gras, prd_gras) :
          /\ BagCardinality(out.tras) = BagCardinality(ret.tras)
          /\ out.tras # ret.tras

====
